---- MODULE Spec2Model ----
(***************************************************************************)
(* The ledger engine of main.py: class Block and class Blockchain.         *)
(*                                                                         *)
(* Python lists are objects held by reference.  `heap` is the store of     *)
(* list objects; a block's `transactions` field and the ledger's           *)
(* `pending_transactions` field hold references (indices into heap), so    *)
(* that two fields naming the same list object see each other's appends.   *)
(*                                                                         *)
(* SHA-256 is modelled symbolically: the digest of a text is the tagged    *)
(* text itself (no collisions), and the test on the first four hex digits  *)
(* of a digest is a fixed pseudo-random predicate of the digested text     *)
(* that one value in Difficulty satisfies.                                 *)
(***************************************************************************)
EXTENDS Integers, Sequences, FiniteSets, TLC

\* ------------------------------------------------------------------ bounds
MaxChain == 3       \* mine is not called once the chain holds this many blocks
MaxAdds == 2        \* add_transaction is not called after this many calls of it
Difficulty == 3     \* one guess in Difficulty passes the "0000" prefix test

\* ------------------------------------------------------------ input domains
\* (sender, recipient, amount) of the add_transaction calls: a transfer, a
\* self-transfer of a negative amount, and a transfer of amount zero.
TxInputs == {<<"A", "B", 5>>, <<"A", "A", -1>>, <<"B", "A", 0>>}
Miners == {"M"}
Ids == {1, 2}                   \* outcomes of generate_transaction_id
Timestamps == {1}               \* outcomes of datetime.datetime.now()
QueryAddresses == {"A", "M", "unknown"}
QueryIds == {1, 3}

VARIABLES
    heap,                  \* the list objects: heap[r] is the content of list r
    chain,                 \* Blockchain.chain
    pending_transactions,  \* Blockchain.pending_transactions (a reference)
    pc,                    \* position of a mine_block call in progress
    block,                 \* local `block` of the mine_block call in progress
    miner,                 \* argument of the mine_block call in progress
    op,                    \* name of the last call that returned
    arg,                   \* its argument
    ret,                   \* its return value
    tampered,              \* whether a block field was mutated directly
    added                  \* number of add_transaction calls so far

vars == <<heap, chain, pending_transactions, pc, block, miner, op, arg, ret, tampered, added>>

\* ----------------------------------------------------------------- hashing
\* The literal previous_hash "0" of the genesis block.
ZeroHash == <<"0">>

\* hashlib.sha256(text).hexdigest()
sha256(data) == <<"sha256", data>>

RECURSIVE TxsWeight(_)
TxsWeight(txs) ==
    IF txs = <<>> THEN 0
    ELSE txs[1].amount + txs[1].id + 1 + TxsWeight(Tail(txs))

RECURSIVE BlockWeight(_)
BlockWeight(h) ==
    IF Len(h) = 1 THEN 0
    ELSE LET d == h[2]
         IN d[1] + d[2] + TxsWeight(d[3]) + BlockWeight(d[4]) + d[5]

\* guess_hash[:4] == "0000", for the digest of the text f'{block_hash}{nonce}'
StartsWith0000(guess_hash) ==
    LET guess == guess_hash[2]
    IN (BlockWeight(guess[1]) + guess[2]) % Difficulty = 0

\* ------------------------------------------------------------------- Block
NoBlock == [index |-> -1, timestamp |-> 0, transactions |-> 0,
            previous_hash |-> ZeroHash, nonce |-> 0, hash |-> ZeroHash]

\* Block.calculate_hash: str() of the five fields, concatenated, digested.
\* str(self.transactions) reads the list object the field refers to.
calculate_hash(h, b) ==
    sha256(<<b.index, b.timestamp, h[b.transactions], b.previous_hash, b.nonce>>)

\* Block.__init__
Block(h, index, timestamp, transactions, previous_hash) ==
    LET b == [index |-> index, timestamp |-> timestamp,
              transactions |-> transactions, previous_hash |-> previous_hash,
              nonce |-> 0, hash |-> ZeroHash]
    IN [b EXCEPT !.hash = calculate_hash(h, b)]

\* -------------------------------------------------------------- Blockchain
\* Blockchain.create_genesis_block; the fresh list [] is list object `r`.
create_genesis_block(h, r, now) == Block(h, 0, now, r, ZeroHash)

\* Blockchain.valid_proof
valid_proof(block_hash, nonce) ==
    LET guess == <<block_hash, nonce>>
        guess_hash == sha256(guess)
    IN StartsWith0000(guess_hash)

\* The while loop of Blockchain.proof_of_work, entered with `nonce`.
RECURSIVE pow_loop(_, _)
pow_loop(block_hash, nonce) ==
    IF valid_proof(block_hash, nonce) = FALSE
    THEN pow_loop(block_hash, nonce + 1)
    ELSE nonce

\* Faulty variant: the search starts at 1 and never tries 0.
proof_of_work_from1(block_hash) == pow_loop(block_hash, 1)

\* Blockchain.proof_of_work
proof_of_work(block_hash) == pow_loop(block_hash, 0)

\* Faulty variant: the block is inserted at the head of the list.
add_block_atFront(c, b) == <<b>> \o c

\* Blockchain.add_block
add_block(c, b) == Append(c, b)

\* The transaction dictionary built by add_transaction and by mine_block.
Transaction(sender, recipient, amount, id) ==
    [sender |-> sender, recipient |-> recipient, amount |-> amount, id |-> id]

\* The reward dictionary of mine_block.
reward_transaction(miner_address, id) ==
    Transaction("Blockchain", miner_address, 1, id)

\* Faulty variant: the comparison never holds, so an empty pool is mined.
NoPending_never(h, p) == Len(h[p]) < 0

\* len(self.pending_transactions) == 0
NoPending(h, p) == Len(h[p]) = 0

\* Faulty variant: previous_hash is the last block's hash recomputed from its
\* fields, not the hash it stores.
Candidate_recomputedLink(h, c, p, now) ==
    Block(h, Len(c), now, p, calculate_hash(h, c[Len(c)]))

\* Faulty variant: the index is counted from 1.
Candidate_indexFrom1(h, c, p, now) == Block(h, Len(c) + 1, now, p, c[Len(c)].hash)

\* The candidate block of mine_block (lines 83-84).
Candidate(h, c, p, now) == Block(h, Len(c), now, p, c[Len(c)].hash)

\* block.nonce = self.proof_of_work(block.hash) (line 86)
SetNonce(b) == [b EXCEPT !.nonce = proof_of_work(b.hash)]

\* Faulty variant: the reward is added to the pending transactions, which stay.
HeapAfterReward_keepsPool(h, p, rt) == Append(h, h[p] \o <<rt>>)

\* Faulty variant: the pool is emptied and the reward is left out.
HeapAfterReward_noReward(h, p, rt) == Append(h, <<>>)

\* Faulty variant: the reward is also appended to the list the block holds.
HeapAfterReward_rewardInBlock(h, p, rt) ==
    Append([h EXCEPT ![p] = Append(h[p], rt)], <<rt>>)

\* self.pending_transactions = [reward_transaction] (line 96): a new list
\* object is allocated and the field is rebound to it.
HeapAfterReward(h, p, rt) == Append(h, <<rt>>)

\* Faulty variant: the new list is bound to a local name, the field keeps
\* referring to the list the block was given.
PoolAfterReward_notRebound(h, p) == p

PoolAfterReward(h, p) == Len(h) + 1

\* Faulty variant: the transaction is inserted at the head of the list.
HeapAfterAppend_atFront(h, p, t) == [h EXCEPT ![p] = <<t>> \o h[p]]

\* self.pending_transactions.append(transaction) (line 156)
HeapAfterAppend(h, p, t) == [h EXCEPT ![p] = Append(h[p], t)]

\* Faulty variant: the two tests are independent (if / if), so a transaction
\* from an address to itself is debited and credited.
RECURSIVE BalanceOfList_ifIf(_, _, _)
BalanceOfList_ifIf(txs, address, balance) ==
    IF txs = <<>> THEN balance
    ELSE LET t == txs[1]
             debited == IF t.sender = address THEN balance - t.amount ELSE balance
         IN BalanceOfList_ifIf(Tail(txs), address,
                IF t.recipient = address THEN debited + t.amount ELSE debited)

\* Blockchain.get_balance
RECURSIVE BalanceOfList(_, _, _)
BalanceOfList(txs, address, balance) ==
    IF txs = <<>> THEN balance
    ELSE LET t == txs[1]
         IN BalanceOfList(Tail(txs), address,
                IF t.sender = address THEN balance - t.amount
                ELSE IF t.recipient = address THEN balance + t.amount
                ELSE balance)

RECURSIVE BalanceFrom(_, _, _, _, _)
BalanceFrom(h, c, i, address, balance) ==
    IF i > Len(c) THEN balance
    ELSE BalanceFrom(h, c, i + 1, address,
                     BalanceOfList(h[c[i].transactions], address, balance))

\* Faulty variant: every list is counted, the pending pool's included.
RECURSIVE BalanceOverLists(_, _, _, _)
BalanceOverLists(h, r, address, balance) ==
    IF r > Len(h) THEN balance
    ELSE BalanceOverLists(h, r + 1, address, BalanceOfList(h[r], address, balance))

get_balance_withPending(h, c, address) == BalanceOverLists(h, 1, address, 0)

get_balance(h, c, address) == BalanceFrom(h, c, 1, address, 0)

\* Faulty variant: the scan of a block goes on after a match, so the last
\* match of the block is returned.
RECURSIVE FindInList_last(_, _)
FindInList_last(txs, transaction_id) ==
    IF txs = <<>> THEN <<>>
    ELSE LET later == FindInList_last(Tail(txs), transaction_id)
         IN IF later # <<>> THEN later
            ELSE IF txs[1].id = transaction_id THEN <<txs[1]>>
            ELSE <<>>

\* Blockchain.get_transaction_by_id; None is <<>>, a hit is <<transaction>>.
RECURSIVE FindInList(_, _)
FindInList(txs, transaction_id) ==
    IF txs = <<>> THEN <<>>
    ELSE IF txs[1].id = transaction_id THEN <<txs[1]>>
    ELSE FindInList(Tail(txs), transaction_id)

RECURSIVE FindFrom(_, _, _, _)
FindFrom(h, c, i, transaction_id) ==
    IF i > Len(c) THEN <<>>
    ELSE LET hit == FindInList(h[c[i].transactions], transaction_id)
         IN IF hit # <<>> THEN hit ELSE FindFrom(h, c, i + 1, transaction_id)

get_transaction_by_id(h, c, transaction_id) == FindFrom(h, c, 1, transaction_id)

\* Faulty variant: only the hashes are recomputed, no link is compared.
RECURSIVE ValidFrom_hashesOnly(_, _, _)
ValidFrom_hashesOnly(h, c, i) ==
    IF i > Len(c) THEN TRUE
    ELSE IF c[i].hash # calculate_hash(h, c[i]) THEN FALSE
    ELSE ValidFrom_hashesOnly(h, c, i + 1)

\* Faulty variant: only the links are compared, no hash is recomputed.
RECURSIVE ValidFrom_linksOnly(_, _, _)
ValidFrom_linksOnly(h, c, i) ==
    IF i > Len(c) THEN TRUE
    ELSE IF c[i].previous_hash # c[i - 1].hash THEN FALSE
    ELSE ValidFrom_linksOnly(h, c, i + 1)

\* Blockchain.is_chain_valid; position i of the code is position i + 1 here.
RECURSIVE ValidFrom(_, _, _)
ValidFrom(h, c, i) ==
    IF i > Len(c) THEN TRUE
    ELSE LET current_block == c[i]
             previous_block == c[i - 1]
         IN IF current_block.hash # calculate_hash(h, current_block) THEN FALSE
            ELSE IF current_block.previous_hash # previous_block.hash THEN FALSE
            ELSE ValidFrom(h, c, i + 1)

is_chain_valid(h, c) == ValidFrom(h, c, 2)

\* ------------------------------------------------------------------- state
\* Blockchain.__init__: list 1 is the genesis block's [], list 2 the pool's [].
Init ==
    /\ heap = <<<<>>, <<>>>>
    /\ \E now \in Timestamps : chain = <<create_genesis_block(heap, 1, now)>>
    /\ pending_transactions = 2
    /\ pc = "idle"
    /\ block = NoBlock
    /\ miner = ""
    /\ op = "init"
    /\ arg = <<>>
    /\ ret = <<>>
    /\ tampered = FALSE
    /\ added = 0

\* add_transaction(sender, recipient, amount)
AddTransaction ==
    /\ added < MaxAdds
    /\ added' = added + 1
    /\ \E in \in TxInputs, id \in Ids :
         /\ heap' = HeapAfterAppend(heap, pending_transactions,
                                    Transaction(in[1], in[2], in[3], id))
         /\ arg' = in
    /\ op' = "add_transaction"
    /\ ret' = <<>>
    /\ UNCHANGED <<chain, pending_transactions, pc, block, miner, tampered>>

\* mine_block(miner_address) with nothing pending (lines 80-81)
MineEmpty ==
    /\ NoPending(heap, pending_transactions)
    /\ \E miner_address \in Miners : arg' = <<miner_address>>
    /\ op' = "mine_block"
    /\ ret' = <<FALSE>>
    /\ UNCHANGED <<heap, chain, pending_transactions, pc, block, miner, tampered, added>>

\* mine_block(miner_address) with something pending (lines 83-97)
MineBlock ==
    /\ ~NoPending(heap, pending_transactions)
    /\ Len(chain) < MaxChain
    /\ \E miner_address \in Miners, now \in Timestamps, id \in Ids :
         LET b == SetNonce(Candidate(heap, chain, pending_transactions, now))
         IN /\ chain' = add_block(chain, b)
            /\ heap' = HeapAfterReward(heap, pending_transactions,
                                       reward_transaction(miner_address, id))
            /\ pending_transactions' = PoolAfterReward(heap, pending_transactions)
            /\ arg' = <<miner_address>>
    /\ op' = "mine_block"
    /\ ret' = <<TRUE>>
    /\ UNCHANGED <<pc, block, miner, tampered, added>>

\* get_balance(address)
GetBalance ==
    /\ \E address \in QueryAddresses :
         /\ arg' = <<address>>
         /\ ret' = <<get_balance(heap, chain, address)>>
    /\ op' = "get_balance"
    /\ UNCHANGED <<heap, chain, pending_transactions, pc, block, miner, tampered, added>>

\* get_transaction_by_id(transaction_id)
GetTransactionById ==
    /\ \E transaction_id \in QueryIds :
         /\ arg' = <<transaction_id>>
         /\ ret' = get_transaction_by_id(heap, chain, transaction_id)
    /\ op' = "get_transaction_by_id"
    /\ UNCHANGED <<heap, chain, pending_transactions, pc, block, miner, tampered, added>>

\* is_chain_valid()
IsChainValid ==
    /\ op' = "is_chain_valid"
    /\ arg' = <<>>
    /\ ret' = <<is_chain_valid(heap, chain)>>
    /\ UNCHANGED <<heap, chain, pending_transactions, pc, block, miner, tampered, added>>

Next ==
    \/ AddTransaction
    \/ MineEmpty
    \/ MineBlock
    \/ GetBalance
    \/ GetTransactionById
    \/ IsChainValid

Spec == Init /\ [][Next]_vars

\* ----------------------------------------------------- direct field mutation
\* Block fields are public attributes: code holding the ledger can assign
\* block.previous_hash or change the list block.transactions refers to.
\* arg records the position (counted from 0, as the code does) and the
\* field; ret records what is_chain_valid() returned before the mutation.
TamperLists == {<<>>, <<Transaction("B", "A", 5, 1)>>}

TamperTransactions ==
    /\ \E i \in 1..Len(chain), txs \in TamperLists :
         /\ txs # heap[chain[i].transactions]
         /\ heap' = [heap EXCEPT ![chain[i].transactions] = txs]
         /\ arg' = <<i - 1, "transactions">>
    /\ UNCHANGED chain

TamperPreviousHash ==
    /\ \E i \in 1..Len(chain),
          h \in {ZeroHash} \cup {chain[j].hash : j \in 1..Len(chain)} :
         /\ h # chain[i].previous_hash
         /\ chain' = [chain EXCEPT ![i].previous_hash = h]
         /\ arg' = <<i - 1, "previous_hash">>
    /\ UNCHANGED heap

Tamper ==
    /\ ~tampered
    /\ tampered' = TRUE
    /\ TamperTransactions \/ TamperPreviousHash
    /\ op' = "tamper"
    /\ ret' = <<is_chain_valid(heap, chain)>>
    /\ UNCHANGED <<pending_transactions, pc, block, miner, added>>

\* The ledger's calls up to one direct mutation, and the validity check after it.
NextTamper ==
    \/ ~tampered /\ Next
    \/ Tamper
    \/ tampered /\ IsChainValid

SpecTamper == Init /\ [][NextTamper]_vars

\* The stored hash of a block is a public attribute too: a caller can assign
\* block.hash, to the hash recomputed from the block's fields or to "0".
TamperHash ==
    /\ ~tampered
    /\ tampered' = TRUE
    /\ \E i \in 1..Len(chain) : \E h \in {calculate_hash(heap, chain[i]), ZeroHash} :
         /\ h # chain[i].hash
         /\ chain' = [chain EXCEPT ![i].hash = h]
         /\ arg' = <<i - 1, "hash">>
    /\ op' = "tamper_hash"
    /\ ret' = <<is_chain_valid(heap, chain)>>
    /\ UNCHANGED <<heap, pending_transactions, pc, block, miner, added>>

\* The ledger's calls up to one direct mutation of any of the three fields,
\* and the validity check after it.
NextValidity ==
    \/ ~tampered /\ Next
    \/ Tamper
    \/ TamperHash
    \/ tampered /\ IsChainValid

SpecValidity == Init /\ [][NextValidity]_vars

\* ------------------------------------------- mine_block, statement by statement
\* One thread runs mine_block while another runs add_transaction: the steps of
\* mine_block are its statements, and add_transaction may run between them.
MineStart ==
    /\ pc = "idle"
    /\ ~NoPending(heap, pending_transactions)
    /\ Len(chain) < MaxChain
    /\ \E miner_address \in Miners, now \in Timestamps :
         /\ block' = Candidate(heap, chain, pending_transactions, now)
         /\ miner' = miner_address
    /\ pc' = "proof_of_work"
    /\ UNCHANGED <<heap, chain, pending_transactions, op, arg, ret, tampered, added>>

MineProofOfWork ==
    /\ pc = "proof_of_work"
    /\ block' = SetNonce(block)
    /\ pc' = "add_block"
    /\ UNCHANGED <<heap, chain, pending_transactions, miner, op, arg, ret, tampered, added>>

MineAddBlock ==
    /\ pc = "add_block"
    /\ chain' = add_block(chain, block)
    /\ pc' = "reward"
    /\ UNCHANGED <<heap, pending_transactions, block, miner, op, arg, ret, tampered, added>>

MineReward ==
    /\ pc = "reward"
    /\ \E id \in Ids :
         heap' = HeapAfterReward(heap, pending_transactions,
                                 reward_transaction(miner, id))
    /\ pending_transactions' = PoolAfterReward(heap, pending_transactions)
    /\ pc' = "idle"
    /\ block' = NoBlock
    /\ miner' = ""
    /\ op' = "mine_block"
    /\ arg' = <<miner>>
    /\ ret' = <<TRUE>>
    /\ UNCHANGED <<chain, tampered, added>>

NextConc ==
    \/ AddTransaction
    \/ pc = "idle" /\ MineEmpty
    \/ MineStart
    \/ MineProofOfWork
    \/ MineAddBlock
    \/ MineReward
    \/ pc = "idle" /\ IsChainValid

SpecConc == Init /\ [][NextConc]_vars

\* ================================================================ properties
Pool == heap[pending_transactions]

\* The transactions of the block at position i of the chain.
TransactionsOf(i) == heap[chain[i].transactions]

\* The hash of block b over its current fields, with the nonce given.
HashWithNonce(b, n) ==
    sha256(<<b.index, b.timestamp, heap[b.transactions], b.previous_hash, n>>)

\* C1: after any sequence of add_transaction and mine_block calls, with no
\* direct mutation of a block, is_chain_valid() returns true.
C1_UntouchedChainValid ==
    /\ is_chain_valid(heap, chain)
    /\ op = "is_chain_valid" => ret = <<TRUE>>

\* C2: every block of the chain, the genesis block and every mined block,
\* stores the hash of its current index, timestamp, transactions,
\* previous_hash and nonce: after mining, the hash over the nonce found.
C2_StoredHashIsRecomputedHash ==
    \A i \in 1..Len(chain) : chain[i].hash = HashWithNonce(chain[i], chain[i].nonce)

\* C3: mine_block on an empty pending pool returns false and leaves the
\* chain, every block's transactions and the pending pool as they were.
C3_MineEmptyChangesNothing ==
    [][(op' = "mine_block" /\ Len(Pool) = 0)
         => /\ ret' = <<FALSE>>
            /\ chain' = chain
            /\ heap' = heap
            /\ pending_transactions' = pending_transactions]_vars

C3_Witness == op = "mine_block" /\ ret = <<FALSE>> /\ Len(chain) = 1 /\ Len(Pool) = 0

\* C4: mine_block(miner_address) on a non-empty pending pool returns true,
\* makes the chain one block longer, and leaves as pending pool exactly one
\* transaction: sender "Blockchain", recipient miner_address, amount 1.
C4_MineCommitsAndSeedsReward ==
    [][(op' = "mine_block" /\ Len(Pool) > 0)
         => /\ ret' = <<TRUE>>
            /\ Len(chain') = Len(chain) + 1
            /\ Len(heap'[pending_transactions']) = 1
            /\ heap'[pending_transactions'][1].sender = "Blockchain"
            /\ heap'[pending_transactions'][1].recipient = arg'[1]
            /\ heap'[pending_transactions'][1].amount = 1]_vars

C4_Witness ==
    /\ op = "mine_block" /\ ret = <<TRUE>>
    /\ Len(chain) = 3
    /\ Len(TransactionsOf(2)) = 2
    /\ Pool = <<reward_transaction("M", 2)>>

\* C5: the nonce of every mined block is the smallest n >= 0 for which the
\* digest of the block's nonce-0 hash followed by n starts with "0000".
C5_NonceIsSmallestProof ==
    \A i \in 2..Len(chain) :
        LET provisional == HashWithNonce(chain[i], 0)
        IN /\ chain[i].nonce >= 0
           /\ StartsWith0000(sha256(<<provisional, chain[i].nonce>>))
           /\ \A n \in 0..(chain[i].nonce - 1) :
                  ~StartsWith0000(sha256(<<provisional, n>>))

C5_Witness ==
    /\ Len(chain) = 3
    /\ chain[2].nonce = 0
    /\ chain[3].nonce = Difficulty - 1

\* C6: every block after the first holds as previous_hash the hash stored in
\* the block before it, and the first block holds "0".
C6_ChainLinkage ==
    /\ chain[1].previous_hash = ZeroHash
    /\ \A i \in 2..Len(chain) : chain[i].previous_hash = chain[i - 1].hash

C6_Witness ==
    /\ Len(chain) = 3
    /\ chain[2].nonce > 0
    /\ chain[3].previous_hash = chain[2].hash

\* C7, as claimed: mutating the transactions or the previous_hash of any
\* block, the genesis block included, of a chain that was valid makes
\* is_chain_valid() return false.
C7_AnyMutationDetected ==
    (op = "tamper" /\ ret = <<TRUE>>) => ~is_chain_valid(heap, chain)

\* C7, amended: mutating the transactions or the previous_hash of a block at
\* a position >= 1 of a chain that was valid makes is_chain_valid() return
\* false; a mutation of the genesis block is not detected.
C7_MutationAfterGenesisDetected ==
    (op = "tamper" /\ ret = <<TRUE>> /\ arg[1] >= 1) => ~is_chain_valid(heap, chain)

C7_Witness ==
    /\ op = "tamper" /\ ret = <<TRUE>>
    /\ arg = <<1, "transactions">>
    /\ Len(chain) = 3

\* C8: every call leaves the chain it found as a prefix of the chain it
\* leaves, every block already there keeping its six fields and its
\* transactions; the chain grows by at most one block per call.
C8_AppendOnly ==
    [][/\ Len(chain') \in {Len(chain), Len(chain) + 1}
       /\ \A i \in 1..Len(chain) :
            /\ chain'[i] = chain[i]
            /\ heap'[chain'[i].transactions] = heap[chain[i].transactions]]_vars

C8_Witness ==
    /\ Len(chain) = 3
    /\ op = "add_transaction"
    /\ Len(TransactionsOf(2)) = 1
    /\ Len(TransactionsOf(3)) = 1

\* C9: the block built by mine_block holds the pending transactions as they
\* were when it was built, the ones its hash was computed over, whatever
\* add_transaction does afterwards, also between the statements of mine_block.
C9_BlockHoldsSnapshot ==
    /\ pc # "idle" => block.hash = HashWithNonce(block, 0)
    /\ \A i \in 2..Len(chain) : chain[i].hash = HashWithNonce(chain[i], 0)

\* C10: the ledger starts with one block, of index 0, previous_hash "0" and
\* no transactions, and an empty pending pool; the first block of the chain
\* stays that block.
GenesisShape ==
    /\ chain[1].index = 0
    /\ chain[1].previous_hash = ZeroHash
    /\ TransactionsOf(1) = <<>>

C10_Genesis ==
    /\ (Len(chain) = 1 /\ GenesisShape /\ Pool = <<>>)
    /\ []GenesisShape
    /\ [][chain'[1] = chain[1]]_vars

C10_Witness ==
    /\ Len(chain) = 3
    /\ GenesisShape
    /\ Len(Pool) = 2

\* C11: the index of every block is its position in the chain, 0 for the
\* genesis block and one more than the block before for every other block.
C11_IndexIsPosition ==
    /\ \A i \in 1..Len(chain) : chain[i].index = i - 1
    /\ \A i \in 2..Len(chain) : chain[i].index = chain[i - 1].index + 1

C11_Witness == Len(chain) = 3 /\ chain[3].index = 2

\* The committed transactions, as the set of their places <<block, place>>.
CommittedPlaces ==
    {pl \in (1..Len(chain)) \X (1..(MaxAdds + 1)) : pl[2] <= Len(TransactionsOf(pl[1]))}

TransactionAt(pl) == TransactionsOf(pl[1])[pl[2]]

RECURSIVE SumAmounts(_)
SumAmounts(places) ==
    IF places = {} THEN 0
    ELSE LET pl == CHOOSE x \in places : TRUE
         IN TransactionAt(pl).amount + SumAmounts(places \ {pl})

Debits(address) ==
    SumAmounts({pl \in CommittedPlaces : TransactionAt(pl).sender = address})

Credits(address) ==
    SumAmounts({pl \in CommittedPlaces :
                    /\ TransactionAt(pl).recipient = address
                    /\ TransactionAt(pl).sender # address})

\* C12: get_balance(address) is the sum of the amounts committed to address
\* by other senders minus the sum of the amounts committed from address; a
\* transaction from address to itself only debits, and an address in no
\* committed transaction has balance 0.
C12_BalanceIsCreditsMinusDebits ==
    /\ \A address \in QueryAddresses \cup {"B"} :
         get_balance(heap, chain, address) = Credits(address) - Debits(address)
    /\ get_balance(heap, chain, "unknown") = 0
    /\ op = "get_balance" => ret = <<Credits(arg[1]) - Debits(arg[1])>>

C12_Witness ==
    /\ op = "get_balance" /\ arg = <<"A">> /\ ret = <<-4>>
    /\ Len(chain) = 2
    /\ Len(TransactionsOf(2)) = 2
    /\ TransactionsOf(2)[1].sender = "A" /\ TransactionsOf(2)[1].recipient = "A"

\* The balance of address from the amounts in the list txs alone.
NetOf(txs, address) ==
    LET places == {k \in 1..Len(txs) : txs[k].sender = address \/ txs[k].recipient = address}
        Signed(k) == IF txs[k].sender = address THEN 0 - txs[k].amount ELSE txs[k].amount
        Total[S \in SUBSET places] ==
            IF S = {} THEN 0
            ELSE LET k == CHOOSE x \in S : TRUE IN Signed(k) + Total[S \ {k}]
    IN Total[places]

\* C13: add_transaction changes no balance, whatever its arguments; a balance
\* changes only in a mine_block call that returns true, and then by the
\* transactions that were pending before the call and by nothing else.
C13_PendingNeverCounts ==
    [][\A address \in QueryAddresses \cup {"B"} :
         LET before == get_balance(heap, chain, address)
             after == get_balance(heap', chain', address)
         IN /\ op' = "add_transaction" => after = before
            /\ after # before => (op' = "mine_block" /\ ret' = <<TRUE>>)
            /\ (op' = "mine_block" /\ Len(chain') = Len(chain) + 1)
                  => after = before + NetOf(Pool, address)]_vars

C13_Witness ==
    /\ op = "add_transaction" /\ arg = <<"A", "B", 5>>
    /\ Len(chain) = 2
    /\ Len(Pool) = 2
    /\ Pool[2].sender = "A"
    /\ get_balance(heap, chain, "A") = 1

\* Place x comes before place y in chain order, then in-block order.
PlaceBefore(x, y) == x[1] < y[1] \/ (x[1] = y[1] /\ x[2] < y[2])

PlacesWithId(id) == {pl \in CommittedPlaces : TransactionAt(pl).id = id}

\* C14: get_transaction_by_id(id) returns the first committed transaction
\* with that id, in chain order then in-block order, and none when no
\* committed transaction has it, whatever the pending pool holds.
C14_LookupFindsFirstCommitted ==
    /\ \A id \in QueryIds \cup Ids :
         LET found == get_transaction_by_id(heap, chain, id)
         IN IF PlacesWithId(id) = {} THEN found = <<>>
            ELSE \E pl \in PlacesWithId(id) :
                   /\ \A other \in PlacesWithId(id) : other = pl \/ PlaceBefore(pl, other)
                   /\ found = <<TransactionAt(pl)>>
    /\ op = "get_transaction_by_id"
         => ret = get_transaction_by_id(heap, chain, arg[1])

C14_Witness ==
    /\ op = "get_transaction_by_id" /\ arg = <<1>>
    /\ Len(chain) = 2
    /\ Len(TransactionsOf(2)) = 2
    /\ TransactionsOf(2)[1].id = 1 /\ TransactionsOf(2)[2].id = 1
    /\ TransactionsOf(2)[1] # TransactionsOf(2)[2]
    /\ ret = <<TransactionsOf(2)[1]>>

\* A pending transaction whose id no committed transaction has is not found.
C14_PendingWitness ==
    /\ op = "get_transaction_by_id" /\ arg = <<1>> /\ ret = <<>>
    /\ \E k \in 1..Len(Pool) : Pool[k].id = 1

\* C15: add_transaction(sender, recipient, amount) returns normally for any
\* arguments and appends one transaction carrying the three values at the
\* end of the pending pool; the earlier pending transactions keep their
\* places, and the chain and its blocks' transactions stay as they were.
C15_AddAppendsOneTransaction ==
    [][op' = "add_transaction"
         => LET after == heap'[pending_transactions']
            IN /\ ret' = <<>>
               /\ Len(after) = Len(Pool) + 1
               /\ SubSeq(after, 1, Len(Pool)) = Pool
               /\ after[Len(after)].sender = arg'[1]
               /\ after[Len(after)].recipient = arg'[2]
               /\ after[Len(after)].amount = arg'[3]
               /\ chain' = chain
               /\ \A i \in 1..Len(chain) :
                    heap'[chain'[i].transactions] = TransactionsOf(i)]_vars

C15_Witness ==
    /\ op = "add_transaction" /\ arg = <<"A", "A", -1>>
    /\ Len(chain) = 2
    /\ Len(Pool) = 2
    /\ Pool[1].sender = "Blockchain"
    /\ Pool[2].sender = "A" /\ Pool[2].recipient = "A" /\ Pool[2].amount = -1

\* Every block after the first stores the hash of its fields and holds as
\* previous_hash the hash stored in the block before it.
HashesAndLinksHold ==
    \A i \in 2..Len(chain) :
        /\ chain[i].hash = HashWithNonce(chain[i], chain[i].nonce)
        /\ chain[i].previous_hash = chain[i - 1].hash

\* C16: is_chain_valid() returns true exactly when every block at a position
\* >= 1 stores the hash recomputed from its fields and holds the stored hash
\* of the block before it; the genesis block's hash is never recomputed, so
\* a chain of one block is always reported valid.
C16_ValidIffHashesAndLinks ==
    /\ is_chain_valid(heap, chain) = HashesAndLinksHold
    /\ op = "is_chain_valid" => ret = <<HashesAndLinksHold>>
    /\ Len(chain) = 1 => is_chain_valid(heap, chain)

\* Every recomputed hash matches and one link is broken.
C16_Witness ==
    /\ op = "is_chain_valid" /\ ret = <<FALSE>>
    /\ Len(chain) = 3
    /\ \A i \in 2..Len(chain) : chain[i].hash = HashWithNonce(chain[i], chain[i].nonce)
    /\ chain[3].previous_hash # chain[2].hash

\* A chain of one block whose genesis block no longer stores its hash.
C16_GenesisWitness ==
    /\ op = "is_chain_valid" /\ ret = <<TRUE>>
    /\ Len(chain) = 1
    /\ chain[1].hash # HashWithNonce(chain[1], chain[1].nonce)

\* The committed transactions of chain c over lists h, in chain order then
\* in-block order.
RECURSIVE CommittedFrom(_, _, _)
CommittedFrom(h, c, i) ==
    IF i > Len(c) THEN <<>>
    ELSE h[c[i].transactions] \o CommittedFrom(h, c, i + 1)

Committed == CommittedFrom(heap, chain, 1)

IsAccepted(t) == t.sender # "Blockchain"

\* The transactions add_transaction accepted that are committed, and those
\* that are pending.
AcceptedCommitted == SelectSeq(Committed, IsAccepted)
AcceptedPending == SelectSeq(Pool, IsAccepted)

\* No list is both the pool's and a block's, nor the list of two blocks.
ListsApart ==
    /\ \A i \in 1..Len(chain) : chain[i].transactions # pending_transactions
    /\ \A i, j \in 1..Len(chain) : i # j => chain[i].transactions # chain[j].transactions

\* C17: every transaction add_transaction accepted is, from then on, at one
\* place: in the pending pool or in one committed block, never in both and
\* never in neither; a mine_block that returns true moves the whole pending
\* pool, in its order, into the block it appends.
C17_NothingLostOrDuplicated ==
    /\ [](ListsApart /\ Len(AcceptedCommitted) + Len(AcceptedPending) = added)
    /\ [][LET committedAfter == CommittedFrom(heap', chain', 1)
              poolAfter == heap'[pending_transactions']
              acceptedAfter == SelectSeq(committedAfter, IsAccepted)
                                   \o SelectSeq(poolAfter, IsAccepted)
          IN /\ IF op' = "add_transaction"
                THEN /\ acceptedAfter = AcceptedCommitted \o AcceptedPending
                                            \o <<poolAfter[Len(poolAfter)]>>
                     /\ committedAfter = Committed
                ELSE acceptedAfter = AcceptedCommitted \o AcceptedPending
             /\ Len(chain') > Len(chain)
                  => /\ heap'[chain'[Len(chain')].transactions] = Pool
                     /\ committedAfter = Committed \o Pool
                     /\ SelectSeq(poolAfter, IsAccepted) = <<>>]_vars

C17_Witness ==
    /\ Len(chain) = 3
    /\ added = 2
    /\ Len(TransactionsOf(2)) = 1
    /\ Len(TransactionsOf(3)) = 2
    /\ AcceptedPending = <<>>
    /\ TransactionsOf(2)[1] = TransactionsOf(3)[2]

\* C18: once a mine_block call has returned true the pending pool is never
\* empty: it starts with the reward of the latest such call, so a later
\* mine_block call finds something pending; mine_block returns false only
\* while the chain is the genesis block alone.
C18_PoolNeverEmptyAfterMine ==
    /\ Len(chain) > 1
         => /\ Len(Pool) >= 1
            /\ Pool[1].sender = "Blockchain"
            /\ Pool[1].recipient \in Miners
            /\ Pool[1].amount = 1
    /\ (op = "mine_block" /\ ret = <<FALSE>>) => Len(chain) = 1

C18_Witness ==
    /\ op = "mine_block" /\ ret = <<TRUE>>
    /\ Len(chain) = 3
    /\ added = 1
    /\ TransactionsOf(3) = <<reward_transaction("M", 1)>>
    /\ Pool = <<reward_transaction("M", 2)>>

IsReward(t) == t.sender = "Blockchain"

\* The rewards that are committed.
RewardsCommitted == SelectSeq(Committed, IsReward)

\* C19: the reward of a mine_block call is not in the block the call
\* appends: it is the first pending transaction, and the next mine_block
\* call commits it.  After k >= 1 calls that returned true the chain holds
\* k - 1 rewards, and a miner's balance counts only these.
C19_RewardOneBlockLate ==
    /\ [](/\ Len(RewardsCommitted) = (IF Len(chain) = 1 THEN 0 ELSE Len(chain) - 2)
          /\ \A i \in 1..Len(chain) :
               Len(SelectSeq(TransactionsOf(i), IsReward)) = (IF i <= 2 THEN 0 ELSE 1)
          /\ Len(SelectSeq(Pool, IsReward)) = (IF Len(chain) = 1 THEN 0 ELSE 1)
          /\ \A m \in Miners :
               get_balance(heap, chain, m)
                 = Len(SelectSeq(RewardsCommitted, LAMBDA t : t.recipient = m))
                   + NetOf(AcceptedCommitted, m))
    /\ [][Len(chain') > Len(chain)
            => LET new == chain'[Len(chain')]
                   reward == heap'[pending_transactions'][1]
               IN /\ IsReward(reward) /\ reward.recipient = arg'[1]
                  /\ heap'[new.transactions] = Pool
                  /\ get_balance(heap', chain', arg'[1])
                       = get_balance(heap, chain, arg'[1]) + NetOf(Pool, arg'[1])
                  /\ Len(chain) > 1 => heap'[new.transactions][1] = Pool[1]]_vars

C19_Witness ==
    /\ op = "mine_block" /\ ret = <<TRUE>> /\ arg = <<"M">>
    /\ Len(chain) = 3
    /\ Len(RewardsCommitted) = 1
    /\ get_balance(heap, chain, "M") = 1
    /\ Len(SelectSeq(Pool, IsReward)) = 1

====
